---------------------------- MODULE Spec2Model ----------------------------
(***************************************************************************)
(* Model of the rust-calc expression evaluator: the lexer (lexer.rs), the  *)
(* precedence-climbing parser (parser.rs), the AST evaluation (ast.rs) and *)
(* the read-eval-print loop that drives them over one environment          *)
(* (main.rs).                                                              *)
(*                                                                         *)
(* Characters are one-character strings and a source line is a sequence   *)
(* of characters.  An f64 is modelled by the values f64 arithmetic         *)
(* computes exactly: signed zero, the dyadic rationals n/d of small        *)
(* magnitude, the infinities and NaN.  The constants pi and e are kept as  *)
(* two distinguished values, and every other f64 (a rounded result, a      *)
(* result beyond MaxMag) is the single value Untracked, on which every     *)
(* operation again yields Untracked (or NaN when the other operand is      *)
(* NaN).                                                                   *)
(***************************************************************************)
EXTENDS Integers, Sequences, FiniteSets, TLC

VARIABLES
    input,          \* Lexer.input: the characters of the line being processed
    position,       \* Lexer.position
    current_token,  \* Parser.current_token (in SpecLex: the last scanner result)
    pc,             \* where the loop of main / evaluate_expression stands
    ast,            \* the tree returned by Parser::parse
    result,         \* the Result of the last evaluate_expression step
    environment,    \* main's HashMap<String, f64>
    stdout,         \* the values println!("=> {}", ..) has written, in order,
                    \* since the current line was read
    env0,           \* environment when the current line was read
    count           \* lines read by main so far (in SpecLex: calls of next_token)

vars == <<input, position, current_token, pc, ast, result, environment,
          stdout, env0, count>>

-----------------------------------------------------------------------------
(* Bounds of the model *)

\* largest numerator / denominator of a tracked finite value
MaxMag == 1000
\* lines main reads
MaxLines == 2
\* nodes of the expressions main reads, line after line
MaxLineNodes == 3
\* nodes of the expressions evaluate_expression is given
MaxNodes == 5
\* nodes of the expressions around which malformed lines are built
MaxBadNodes == 2
\* operators of the operator chains the parser is given
MaxOps == 3
\* words of the free-form lines the parser is given
MaxWords == 4
\* characters of the texts the scanner is given
MaxLen == 5
\* calls of next_token on one scanner
MaxCalls == 7

-----------------------------------------------------------------------------
(* f64 values *)

Fin(n, d) == [k |-> "fin", n |-> n, d |-> d]
Zero(s) == [k |-> "zero", n |-> s, d |-> 1]
Inf(s) == [k |-> "inf", n |-> s, d |-> 1]
NaN == [k |-> "nan", n |-> 0, d |-> 1]
Untracked == [k |-> "untracked", n |-> 0, d |-> 1]
PI == [k |-> "pi", n |-> 0, d |-> 1]
E == [k |-> "e", n |-> 0, d |-> 1]

Abs(i) == IF i < 0 THEN -i ELSE i
Sgn(i) == IF i < 0 THEN -1 ELSE 1

RECURSIVE Gcd(_, _)
Gcd(a, b) == IF b = 0 THEN a ELSE Gcd(b, a % b)

RECURSIVE IsPow2(_)
IsPow2(d) == IF d = 1 THEN TRUE ELSE IF d % 2 = 1 THEN FALSE ELSE IsPow2(d \div 2)

\* The f64 holding the exact quotient n/d (d # 0), when f64 holds it exactly
\* and the model tracks it.
Norm(n, d) ==
    IF n = 0 THEN Zero(Sgn(d))
    ELSE LET g == Gcd(Abs(n), Abs(d))
             nn == (Sgn(d) * n) \div g
             dd == Abs(d) \div g
         IN  IF Abs(nn) > MaxMag \/ dd > MaxMag \/ ~IsPow2(dd)
             THEN Untracked
             ELSE Fin(nn, dd)

IsNum(v) == v.k \in {"fin", "zero", "inf"}
Opaque(v) == v.k \in {"untracked", "pi", "e"}

Neg(v) == IF IsNum(v) THEN [v EXCEPT !.n = -v.n] ELSE v

\* f64 `+`
Add(a, b) ==
    IF a.k = "nan" \/ b.k = "nan" THEN NaN
    ELSE IF Opaque(a) \/ Opaque(b) THEN Untracked
    ELSE IF a.k = "inf" /\ b.k = "inf" THEN (IF a.n = b.n THEN a ELSE NaN)
    ELSE IF a.k = "inf" THEN a
    ELSE IF b.k = "inf" THEN b
    ELSE IF a.k = "zero" /\ b.k = "zero"
         THEN (IF a.n = -1 /\ b.n = -1 THEN Zero(-1) ELSE Zero(1))
    ELSE IF a.k = "zero" THEN b
    ELSE IF b.k = "zero" THEN a
    ELSE Norm(a.n * b.d + b.n * a.d, a.d * b.d)

\* f64 `-`
Sub(a, b) == Add(a, Neg(b))

\* f64 `*`
Mul(a, b) ==
    IF a.k = "nan" \/ b.k = "nan" THEN NaN
    ELSE IF Opaque(a) \/ Opaque(b) THEN Untracked
    ELSE IF (a.k = "zero" /\ b.k = "inf") \/ (a.k = "inf" /\ b.k = "zero") THEN NaN
    ELSE IF a.k = "zero" \/ b.k = "zero" THEN Zero(Sgn(a.n) * Sgn(b.n))
    ELSE IF a.k = "inf" \/ b.k = "inf" THEN Inf(Sgn(a.n) * Sgn(b.n))
    ELSE Norm(a.n * b.n, a.d * b.d)

\* f64 `/`: a zero divisor is not an error
Div(a, b) ==
    IF a.k = "nan" \/ b.k = "nan" THEN NaN
    ELSE IF Opaque(a) \/ Opaque(b) THEN Untracked
    ELSE IF (a.k = "zero" /\ b.k = "zero") \/ (a.k = "inf" /\ b.k = "inf") THEN NaN
    ELSE IF a.k = "zero" \/ b.k = "inf" THEN Zero(Sgn(a.n) * Sgn(b.n))
    ELSE IF b.k = "zero" \/ a.k = "inf" THEN Inf(Sgn(a.n) * Sgn(b.n))
    ELSE Norm(a.n * b.d, a.d * b.n)

One == Fin(1, 1)

\* a multiplied y times by itself, y > 0, by repeated squaring
RECURSIVE PowNat(_, _)
PowNat(a, y) ==
    IF y = 1 THEN a
    ELSE IF y % 2 = 1 THEN Mul(Mul(PowNat(a, y \div 2), PowNat(a, y \div 2)), a)
    ELSE Mul(PowNat(a, y \div 2), PowNat(a, y \div 2))

\* f64::powf
Powf(a, b) ==
    IF b.k = "zero" \/ a = One THEN One
    ELSE IF a.k = "nan" \/ b.k = "nan" THEN NaN
    ELSE IF a.k = "fin" /\ b.k = "fin" /\ b.d = 1 /\ Abs(b.n) <= MaxMag
         THEN (IF b.n > 0 THEN PowNat(a, b.n) ELSE Div(One, PowNat(a, -b.n)))
    ELSE IF a = Zero(1) /\ b.k = "fin" /\ b.n > 0 THEN Zero(1)
    ELSE Untracked

IsSquare(n) == \E r \in 1..n : r * r = n
Root(n) == CHOOSE r \in 1..n : r * r = n

\* f64::sqrt: NaN for a negative argument, not an error
Sqrt(a) ==
    IF a.k = "nan" THEN NaN
    ELSE IF Opaque(a) THEN Untracked
    ELSE IF a.k = "zero" THEN a
    ELSE IF a.n < 0 THEN NaN
    ELSE IF a.k = "inf" THEN a
    ELSE IF IsSquare(a.n) /\ IsSquare(a.d) THEN Fin(Root(a.n), Root(a.d))
    ELSE Untracked

\* f64::sin
Sin(a) ==
    IF a.k \in {"nan", "inf"} THEN NaN
    ELSE IF a.k = "zero" THEN a
    ELSE Untracked

\* f64::cos
Cos(a) ==
    IF a.k \in {"nan", "inf"} THEN NaN
    ELSE IF a.k = "zero" THEN One
    ELSE Untracked

-----------------------------------------------------------------------------
(* token.rs *)

NoName == <<>>
NoValue == Zero(1)

\* enum Token: the variants without payload, Number(f64) and Symbol(String)
Token(type) == [type |-> type, value |-> NoValue, name |-> NoName]
Number(v) == [type |-> "Number", value |-> v, name |-> NoName]
Symbol(s) == [type |-> "Symbol", value |-> NoValue, name |-> s]

\* enum Associativity
Left == "Left"
Right == "Right"

NoPrecedence == [some |-> FALSE, precedence |-> 0, associativity |-> Left]
SomePrecedence(p, a) == [some |-> TRUE, precedence |-> p, associativity |-> a]

\* precedence_and_associativity with `=` entered in the table as an operator
precedence_and_associativity_equals(token) ==
    IF token.type \in {"Plus", "Minus"} THEN SomePrecedence(1, Left)
    ELSE IF token.type \in {"Multiply", "Divide"} THEN SomePrecedence(2, Left)
    ELSE IF token.type = "Caret" THEN SomePrecedence(3, Right)
    ELSE IF token.type = "Equals" THEN SomePrecedence(1, Right)
    ELSE NoPrecedence

\* Token::precedence_and_associativity
precedence_and_associativity(token) ==
    IF token.type \in {"Plus", "Minus"} THEN SomePrecedence(1, Left)
    ELSE IF token.type \in {"Multiply", "Divide"} THEN SomePrecedence(2, Left)
    ELSE IF token.type = "Caret" THEN SomePrecedence(3, Right)
    ELSE NoPrecedence

\* Token::is_eof
is_eof(token) == token.type = "EndOfFile"

-----------------------------------------------------------------------------
(* lexer.rs *)

Digits == {"0", "1", "2", "3", "4", "5", "6", "7", "8", "9"}
Letters == {"a", "b", "c", "d", "e", "f", "g", "h", "i", "j", "k", "l", "m",
            "n", "o", "p", "q", "r", "s", "t", "u", "v", "w", "x", "y", "z",
            "A", "B", "C", "D", "E", "F", "G", "H", "I", "J", "K", "L", "M",
            "N", "O", "P", "Q", "R", "S", "T", "U", "V", "W", "X", "Y", "Z"}
Whitespace == {" ", "\t"}

is_ascii_digit(c) == c \in Digits
is_ascii_alphabetic(c) == c \in Letters
is_whitespace(c) == c \in Whitespace

DigitValue(c) ==
    CASE c = "0" -> 0 [] c = "1" -> 1 [] c = "2" -> 2 [] c = "3" -> 3
      [] c = "4" -> 4 [] c = "5" -> 5 [] c = "6" -> 6 [] c = "7" -> 7
      [] c = "8" -> 8 [] c = "9" -> 9

\* an error String, by the format! that builds it and what it is built from
NoErr == [kind |-> "None", text |-> <<>>, tok |-> Token("EndOfFile")]
ErrText(kind, text) == [kind |-> kind, text |-> text, tok |-> Token("EndOfFile")]
ErrToken(kind, tok) == [kind |-> kind, text |-> <<>>, tok |-> tok]
\* format!("Expected {:?}, found {:?}", expected, found)
ErrExpected(expected, found) == [kind |-> "Expected", text |-> <<expected>>, tok |-> found]

LexOk(tok, pos) == [ok |-> TRUE, tok |-> tok, position |-> pos, err |-> NoErr]
LexErr(err, pos) == [ok |-> FALSE, tok |-> Token("EndOfFile"), position |-> pos, err |-> err]

\* Lexer::current_char, with "" for None
NoChar == ""
current_char(inp, pos) == IF pos < Len(inp) THEN inp[pos + 1] ELSE NoChar

\* Lexer::advance
lexer_advance(pos) == pos + 1

\* Lexer::consume
consume(token, pos) == LexOk(token, lexer_advance(pos))

\* Lexer::skip_whitespace: the position it leaves
RECURSIVE skip_whitespace(_, _)
skip_whitespace(inp, pos) ==
    LET c == current_char(inp, pos)
    IN  IF c # NoChar /\ is_whitespace(c)
        THEN skip_whitespace(inp, lexer_advance(pos))
        ELSE pos

\* the loop of read_number: the position after the digits and decimal points
RECURSIVE number_end(_, _)
number_end(inp, pos) ==
    LET c == current_char(inp, pos)
    IN  IF c # NoChar /\ (is_ascii_digit(c) \/ c = ".")
        THEN number_end(inp, lexer_advance(pos))
        ELSE pos

\* the loop of read_symbol: the position after the letters
RECURSIVE symbol_end(_, _)
symbol_end(inp, pos) ==
    LET c == current_char(inp, pos)
    IN  IF c # NoChar /\ is_ascii_alphabetic(c)
        THEN symbol_end(inp, lexer_advance(pos))
        ELSE pos

\* input[start..end]
Slice(inp, start, end) == SubSeq(inp, start + 1, end)

RECURSIVE DigitsValue(_)
DigitsValue(s) ==
    IF s = <<>> THEN 0
    ELSE 10 * DigitsValue(SubSeq(s, 1, Len(s) - 1)) + DigitValue(s[Len(s)])

RECURSIVE Pow10(_)
Pow10(k) == IF k = 0 THEN 1 ELSE 10 * Pow10(k - 1)

\* longest digit string whose value the model computes
MaxDigits == 6

\* str::parse::<f64> on a string of digits and '.' that starts with a digit:
\* an error when there is more than one '.', else the nearest f64
ParseF64(s) ==
    LET dots == {i \in 1..Len(s) : s[i] = "."}
    IN  IF Cardinality(dots) > 1 THEN [ok |-> FALSE, value |-> NaN]
        ELSE IF Len(s) > MaxDigits THEN [ok |-> TRUE, value |-> Untracked]
        ELSE IF dots = {} THEN [ok |-> TRUE, value |-> Norm(DigitsValue(s), 1)]
        ELSE LET i == CHOOSE j \in dots : TRUE
                 whole == SubSeq(s, 1, i - 1)
                 frac == SubSeq(s, i + 1, Len(s))
             IN  [ok |-> TRUE,
                  value |-> Norm(DigitsValue(whole) * Pow10(Len(frac)) + DigitsValue(frac),
                                 Pow10(Len(frac)))]

\* Lexer::read_number
read_number(inp, pos) ==
    LET start == pos
        end == number_end(inp, pos)
        number_str == Slice(inp, start, end)
        parsed == ParseF64(number_str)
    IN  IF parsed.ok THEN LexOk(Number(parsed.value), end)
        ELSE LexErr(ErrText("InvalidNumberFormat", number_str), end)

\* Lexer::read_symbol
read_symbol(inp, pos) ==
    LET start == pos
        end == symbol_end(inp, pos)
    IN  LexOk(Symbol(Slice(inp, start, end)), end)

\* the match of Lexer::next_token on the character at pos
token_at(inp, pos) ==
    IF current_char(inp, pos) = NoChar THEN LexOk(Token("EndOfFile"), pos)
    ELSE IF current_char(inp, pos) = "(" THEN consume(Token("LeftParenthesis"), pos)
    ELSE IF current_char(inp, pos) = ")" THEN consume(Token("RightParenthesis"), pos)
    ELSE IF current_char(inp, pos) = "+" THEN consume(Token("Plus"), pos)
    ELSE IF current_char(inp, pos) = "-" THEN consume(Token("Minus"), pos)
    ELSE IF current_char(inp, pos) = "*" THEN consume(Token("Multiply"), pos)
    ELSE IF current_char(inp, pos) = "/" THEN consume(Token("Divide"), pos)
    ELSE IF current_char(inp, pos) = "^" THEN consume(Token("Caret"), pos)
    ELSE IF current_char(inp, pos) = "=" THEN consume(Token("Equals"), pos)
    ELSE IF is_ascii_digit(current_char(inp, pos)) THEN read_number(inp, pos)
    ELSE IF is_ascii_alphabetic(current_char(inp, pos)) THEN read_symbol(inp, pos)
    ELSE LexErr(ErrText("UnexpectedCharacter", <<current_char(inp, pos)>>), pos)

\* next_token with a scanner that rewinds itself when it reaches the end
next_token_rewinding(inp, pos) ==
    IF token_at(inp, skip_whitespace(inp, pos)).ok
       /\ is_eof(token_at(inp, skip_whitespace(inp, pos)).tok)
    THEN LexOk(Token("EndOfFile"), 0)
    ELSE token_at(inp, skip_whitespace(inp, pos))

\* Lexer::next_token
next_token(inp, pos) == token_at(inp, skip_whitespace(inp, pos))

-----------------------------------------------------------------------------
(* ast.rs: the node structs *)

NoNode == [type |-> "None"]
NumberNode(value) == [type |-> "NumberNode", value |-> value]
BinaryNode(type, left, right) == [type |-> type, left |-> left, right |-> right]
PowerNode(base, exponent) == [type |-> "PowerNode", base |-> base, exponent |-> exponent]
UnaryNode(type, argument) == [type |-> type, argument |-> argument]
VariableNode(name) == [type |-> "VariableNode", name |-> name]
AssignmentNode(variable_name, value) ==
    [type |-> "AssignmentNode", variable_name |-> variable_name, value |-> value]

BinaryTypes == {"AddNode", "SubtractNode", "MultiplyNode", "DivideNode"}
UnaryTypes == {"SineNode", "CosineNode", "SquareRootNode"}

-----------------------------------------------------------------------------
(* parser.rs *)

\* struct Parser, without the source text: the lexer's position and
\* current_token.  The field next_token is None from Parser::new on and is
\* never assigned, so Parser::advance always reads from the lexer.
ParserState(pos, tok) == [position |-> pos, current_token |-> tok]

\* Result<Box<dyn AstNode>, String> together with the parser it leaves;
\* kind "Panic" stands for the panic! of create_binary_node
Ok(node, p) == [ok |-> TRUE, node |-> node, p |-> p, err |-> NoErr]
Err(err, p) == [ok |-> FALSE, node |-> NoNode, p |-> p, err |-> err]

\* the strings compared by parse_function_call
SinName == <<"s", "i", "n">>
CosName == <<"c", "o", "s">>
SqrtName == <<"s", "q", "r", "t">>
PrintName == <<"p", "r", "i", "n", "t">>

\* Parser::create_binary_node
create_binary_node(operator, left, right) ==
    IF operator.type = "Plus" THEN BinaryNode("AddNode", left, right)
    ELSE IF operator.type = "Minus" THEN BinaryNode("SubtractNode", left, right)
    ELSE IF operator.type = "Multiply" THEN BinaryNode("MultiplyNode", left, right)
    ELSE IF operator.type = "Divide" THEN BinaryNode("DivideNode", left, right)
    ELSE IF operator.type = "Caret" THEN PowerNode(left, right)
    ELSE [type |-> "Panic"]

\* Parser::advance
advance(inp, p) ==
    LET r == next_token(inp, p.position)
    IN  IF r.ok THEN Ok(NoNode, ParserState(r.position, r.tok))
        ELSE Err(r.err, ParserState(r.position, p.current_token))

\* Parser::expect_token
expect_token(inp, p, expected) ==
    IF p.current_token = Token(expected) THEN advance(inp, p)
    ELSE Err(ErrExpected(expected, p.current_token), p)

\* expect_end that accepts whatever token is left
expect_end_anything(p) == Ok(NoNode, p)

\* Parser::expect_end
expect_end(p) ==
    IF is_eof(p.current_token) THEN Ok(NoNode, p)
    ELSE Err(ErrToken("UnexpectedTokenAtEnd", p.current_token), p)

\* function_node with an unknown name taken as plain grouping
function_node_grouping(function_name, argument, p) ==
    IF function_name = SinName THEN Ok(UnaryNode("SineNode", argument), p)
    ELSE IF function_name = CosName THEN Ok(UnaryNode("CosineNode", argument), p)
    ELSE IF function_name = SqrtName THEN Ok(UnaryNode("SquareRootNode", argument), p)
    ELSE IF function_name = PrintName THEN Ok(UnaryNode("PrintNode", argument), p)
    ELSE Ok(argument, p)

\* the match on function_name at the end of parse_function_call
function_node(function_name, argument, p) ==
    IF function_name = SinName THEN Ok(UnaryNode("SineNode", argument), p)
    ELSE IF function_name = CosName THEN Ok(UnaryNode("CosineNode", argument), p)
    ELSE IF function_name = SqrtName THEN Ok(UnaryNode("SquareRootNode", argument), p)
    ELSE IF function_name = PrintName THEN Ok(UnaryNode("PrintNode", argument), p)
    ELSE Err(ErrText("UnknownFunction", function_name), p)

\* the call of create_binary_node in parse_expression: the node, or the panic
binary_node(operator, left_expr, right_expr) ==
    IF create_binary_node(operator, left_expr, right_expr.node).type = "Panic"
    THEN Err(ErrToken("Panic", operator), right_expr.p)
    ELSE Ok(create_binary_node(operator, left_expr, right_expr.node), right_expr.p)

\* the condition of the while loop of parse_expression: the current token is
\* an operator and `precedence < min_precedence` does not break the loop
continues(token, min_precedence) ==
    /\ precedence_and_associativity(token).some
    /\ ~(precedence_and_associativity(token).precedence < min_precedence)

\* next_min_precedence with every operator taken as left-associative
next_min_precedence_left(precedence, associativity) == precedence + 1

\* the right-hand minimum precedence chosen in parse_expression
next_min_precedence(precedence, associativity) ==
    IF associativity = Left THEN precedence + 1 ELSE precedence

\* the `?` operator on a Result: K on the Ok value, or the Err returned at once
Try(r, K(_)) == IF r.ok THEN K(r) ELSE r

RECURSIVE parse_expression(_, _, _)
RECURSIVE parse_operators(_, _, _, _)
RECURSIVE parse_atom(_, _)
RECURSIVE parse_function_call(_, _, _)
RECURSIVE parse_assignment(_, _, _)

\* Parser::parse_expression
parse_expression(inp, p, min_precedence) ==
    Try(parse_atom(inp, p),
        LAMBDA left_expr : parse_operators(inp, left_expr.p, left_expr.node,
                                           min_precedence))

\* the body of the while loop of parse_expression, for an operator pa of
\* sufficient precedence
parse_operator(inp, p, left_expr, min_precedence, pa) ==
    Try(advance(inp, p),
        LAMBDA a :
          Try(parse_expression(inp, a.p,
                               next_min_precedence(pa.precedence, pa.associativity)),
              LAMBDA right_expr :
                Try(binary_node(p.current_token, left_expr, right_expr),
                    LAMBDA node : parse_operators(inp, node.p, node.node,
                                                  min_precedence))))

\* the while loop of Parser::parse_expression
parse_operators(inp, p, left_expr, min_precedence) ==
    IF continues(p.current_token, min_precedence)
    THEN parse_operator(inp, p, left_expr, min_precedence,
                        precedence_and_associativity(p.current_token))
    ELSE Ok(left_expr, p)

\* Parser::parse_atom
parse_atom(inp, p) ==
    IF p.current_token.type = "Number"
    THEN Try(advance(inp, p),
             LAMBDA a : Ok(NumberNode(p.current_token.value), a.p))
    ELSE IF p.current_token.type = "Symbol"
    THEN Try(advance(inp, p),
             LAMBDA a :
               IF a.p.current_token.type = "LeftParenthesis"
               THEN parse_function_call(inp, a.p, p.current_token.name)
               ELSE IF a.p.current_token.type = "Equals"
               THEN parse_assignment(inp, a.p, p.current_token.name)
               ELSE Ok(VariableNode(p.current_token.name), a.p))
    ELSE IF p.current_token.type = "LeftParenthesis"
    THEN Try(advance(inp, p),
             LAMBDA a :
               Try(parse_expression(inp, a.p, 0),
                   LAMBDA expr :
                     Try(expect_token(inp, expr.p, "RightParenthesis"),
                         LAMBDA x : Ok(expr.node, x.p))))
    ELSE Err(ErrToken("UnexpectedToken", p.current_token), p)

\* Parser::parse_function_call
parse_function_call(inp, p, function_name) ==
    Try(expect_token(inp, p, "LeftParenthesis"),
        LAMBDA open :
          Try(parse_expression(inp, open.p, 0),
              LAMBDA argument :
                Try(expect_token(inp, argument.p, "RightParenthesis"),
                    LAMBDA close :
                      function_node(function_name, argument.node, close.p))))

\* Parser::parse_assignment
parse_assignment(inp, p, variable_name) ==
    Try(expect_token(inp, p, "Equals"),
        LAMBDA eq :
          Try(parse_expression(inp, eq.p, 0),
              LAMBDA value_expr :
                Ok(AssignmentNode(variable_name, value_expr.node), value_expr.p)))

\* Parser::new: the parser holding the first token, or the scanner's error
new(inp) == advance(inp, ParserState(0, Token("EndOfFile")))

\* Parser::parse
parse(inp, p) ==
    Try(parse_expression(inp, p, 0),
        LAMBDA tree : Try(expect_end(tree.p), LAMBDA end : Ok(tree.node, tree.p)))

-----------------------------------------------------------------------------
(* ast.rs: AstNode::evaluate *)

\* Option<f64> together with the environment and the output evaluation leaves
Some(value, env, out) == [some |-> TRUE, value |-> value, env |-> env, out |-> out]
None(env, out) == [some |-> FALSE, value |-> NoValue, env |-> env, out |-> out]

\* HashMap::insert
insert(env, name, value) ==
    [n \in DOMAIN env \cup {name} |-> IF n = name THEN value ELSE env[n]]

\* the operator a binary_operation! node applies
binary_operator(type, l, r) ==
    IF type = "AddNode" THEN Add(l, r)
    ELSE IF type = "SubtractNode" THEN Sub(l, r)
    ELSE IF type = "MultiplyNode" THEN Mul(l, r)
    ELSE Div(l, r)

\* the function a unary_function! node applies
unary_function(type, a) ==
    IF type = "SineNode" THEN Sin(a)
    ELSE IF type = "CosineNode" THEN Cos(a)
    ELSE Sqrt(a)

\* evaluate_variable with 0.0 for a name that is not bound
evaluate_variable_default(node, env, out) ==
    IF node.name \in DOMAIN env THEN Some(env[node.name], env, out)
    ELSE Some(Zero(1), env, out)

\* VariableNode::evaluate
evaluate_variable(node, env, out) ==
    IF node.name \in DOMAIN env THEN Some(env[node.name], env, out) ELSE None(env, out)

\* print_result that writes its line whether or not the argument has a value
print_result_always(a) ==
    [a EXCEPT !.out = Append(a.out, a.value)]

\* PrintNode::evaluate, given the result a of `self.argument.evaluate(env)`
print_result(a) ==
    IF ~a.some THEN a ELSE Some(a.value, a.env, Append(a.out, a.value))

\* assign_result that binds the name whether or not the value subtree has a
\* value
assign_result_always(variable_name, v) ==
    [v EXCEPT !.env = insert(v.env, variable_name, v.value)]

\* AssignmentNode::evaluate, given the result v of `self.value.evaluate(env)`
assign_result(variable_name, v) ==
    IF ~v.some THEN v
    ELSE Some(v.value, insert(v.env, variable_name, v.value), v.out)

\* a unary_function! node's evaluate, given the result a of
\* `self.argument.evaluate(env)`
unary_result(type, a) ==
    IF ~a.some THEN a ELSE Some(unary_function(type, a.value), a.env, a.out)

RECURSIVE evaluate(_, _, _)
\* the second operand of a binary node, once the first has a value
evaluate_right(node, right, l) ==
    LET r == evaluate(right, l.env, l.out)
    IN  IF ~r.some THEN r
        ELSE IF node.type = "PowerNode" THEN Some(Powf(l.value, r.value), r.env, r.out)
        ELSE Some(binary_operator(node.type, l.value, r.value), r.env, r.out)

\* AstNode::evaluate, by node struct
evaluate(node, env, out) ==
    IF node.type = "NumberNode" THEN Some(node.value, env, out)
    ELSE IF node.type \in BinaryTypes
    THEN LET l == evaluate(node.left, env, out)
         IN  IF ~l.some THEN l ELSE evaluate_right(node, node.right, l)
    ELSE IF node.type = "PowerNode"
    THEN LET l == evaluate(node.base, env, out)
         IN  IF ~l.some THEN l ELSE evaluate_right(node, node.exponent, l)
    ELSE IF node.type \in UnaryTypes
    THEN unary_result(node.type, evaluate(node.argument, env, out))
    ELSE IF node.type = "PrintNode"
    THEN print_result(evaluate(node.argument, env, out))
    ELSE IF node.type = "VariableNode" THEN evaluate_variable(node, env, out)
    ELSE assign_result(node.variable_name, evaluate(node.value, env, out))

-----------------------------------------------------------------------------
(* main.rs *)

\* Result<f64, String>
ResultOk(value) == [ok |-> TRUE, value |-> value, err |-> NoErr]
ResultErr(err) == [ok |-> FALSE, value |-> NoValue, err |-> err]
NoResult == ResultErr(NoErr)

PiName == <<"p", "i">>
EName == <<"e">>

\* main: the environment before the first line
InitialEnvironment == [n \in {PiName, EName} |-> IF n = PiName THEN PI ELSE E]

\* str::trim
RECURSIVE trim_end(_)
trim_end(s) ==
    IF s # <<>> /\ is_whitespace(s[Len(s)]) THEN trim_end(SubSeq(s, 1, Len(s) - 1)) ELSE s
trim(s) == LET start == skip_whitespace(s, 0) IN trim_end(SubSeq(s, start + 1, Len(s)))

to_ascii_lowercase(c) ==
    CASE c = "Q" -> "q" [] c = "U" -> "u" [] c = "I" -> "i" [] c = "T" -> "t"
      [] c = "E" -> "e" [] c = "X" -> "x" [] OTHER -> c

\* str::eq_ignore_ascii_case against a lower-case word
eq_ignore_ascii_case(s, word) ==
    Len(s) = Len(word) /\ \A i \in 1..Len(s) : to_ascii_lowercase(s[i]) = word[i]

\* str::contains
contains(s, word) ==
    \E i \in 0..(Len(s) - Len(word)) : SubSeq(s, i + 1, i + Len(word)) = word

QuitWord == <<"q", "u", "i", "t">>
ExitWord == <<"e", "x", "i", "t">>

-----------------------------------------------------------------------------
(* The source texts the model reads *)

RECURSIVE Concat(_)
\* the concatenation of a sequence of character sequences
Concat(ws) == IF ws = <<>> THEN <<>> ELSE Head(ws) \o Concat(Tail(ws))

\* all sequences of at most n elements of S, concatenated
RECURSIVE WordTexts(_, _)
WordTexts(S, n) ==
    IF n = 0 THEN {<<>>}
    ELSE LET shorter == WordTexts(S, n - 1)
         IN  shorter \cup {w \o t : w \in S, t \in shorter}

Paren(s) == <<"(">> \o s \o <<")">>
Operand(s) == IF Len(s) = 1 THEN s ELSE Paren(s)

EvalAtoms == {<<"2">>, <<"0">>, <<"x">>}
EvalPrefixes == {<<"s", "q", "r", "t">>, <<"p", "r", "i", "n", "t">>}
EvalTargets == {<<"x">>, <<"y">>}
EvalOperators == {<<"-">>, <<" ", "/", " ">>}

\* the source texts of the expressions of exactly n nodes over the atoms,
\* functions, assignment targets and operators above
RECURSIVE Sources(_), Operations(_, _)
Sources(n) ==
    IF n = 1 THEN EvalAtoms
    ELSE {f \o Paren(a) : f \in EvalPrefixes, a \in Sources(n - 1)}
         \cup {t \o <<" ", "=", " ">> \o a : t \in EvalTargets, a \in Sources(n - 1)}
         \cup Operations(n, n - 2)

\* the binary operations of n nodes whose left operand has at most i nodes
Operations(n, i) ==
    IF i < 1 THEN {}
    ELSE Operations(n, i - 1)
         \cup {Operand(l) \o o \o Operand(r) :
                 o \in EvalOperators, l \in Sources(i), r \in Sources(n - 1 - i)}

RECURSIVE SourcesUpTo(_)
SourcesUpTo(n) == IF n = 0 THEN {} ELSE SourcesUpTo(n - 1) \cup Sources(n)

\* texts put before and after an expression: most make the line malformed
Junk == {<<" ", ")">>, <<"@">>, <<" ", "2">>, <<"-">>, <<"(">>, <<"2", ".", "2", ".">>,
         <<" ", "=", " ", "2">>, <<"+", "2">>, <<"*", "2">>, <<"^", "2">>, <<" ", "x">>}
UnknownNames == {<<"f", "o", "o">>, <<"s", "i", "n", "x">>}

\* lines with text before, after or around a well-formed expression
BadLines ==
    LET small == SourcesUpTo(MaxBadNodes)
    IN  {s \o j : s \in small, j \in Junk}
        \cup {j \o s : s \in small, j \in Junk}
        \cup {f \o Paren(s) : f \in UnknownNames, s \in small}

ShellLines == {<<>>, <<" ">>, QuitWord, <<"E", "x", "i", "t">>}

\* the lines main is given, line after line
Lines == ShellLines \cup BadLines \cup SourcesUpTo(MaxLineNodes)

-----------------------------------------------------------------------------
(* main.rs: the loop of main and evaluate_expression, step by step *)

\* ReadLine with the environment created inside the loop
ReadLineFreshEnvironment ==
    /\ pc = "read"
    /\ count < MaxLines
    /\ \E line \in Lines :
         /\ input' = trim(line)
         /\ pc' = IF eq_ignore_ascii_case(trim(line), QuitWord)
                     \/ eq_ignore_ascii_case(trim(line), ExitWord) THEN "exit"
                  ELSE IF trim(line) = <<>> THEN "read"
                  ELSE "new"
    /\ count' = count + 1
    /\ stdout' = <<>>
    /\ environment' = InitialEnvironment
    /\ env0' = InitialEnvironment
    /\ UNCHANGED <<position, current_token, ast, result>>

\* main: one iteration up to the call of evaluate_expression
ReadLine ==
    /\ pc = "read"
    /\ count < MaxLines
    /\ \E line \in Lines : \E inp \in {trim(line)} :
         /\ input' = inp
         /\ pc' = IF eq_ignore_ascii_case(inp, QuitWord)
                     \/ eq_ignore_ascii_case(inp, ExitWord) THEN "exit"
                  ELSE IF inp = <<>> THEN "read"
                  ELSE "new"
    /\ count' = count + 1
    /\ stdout' = <<>>
    /\ env0' = environment
    /\ UNCHANGED <<position, current_token, ast, result, environment>>

\* main: read_line returns Ok(0) or Err
EndOfInput ==
    /\ pc = "read"
    /\ pc' = "exit"
    /\ UNCHANGED <<input, position, current_token, ast, result, environment,
                   stdout, env0, count>>

\* evaluate_expression: Parser::new(input)?
NewParser ==
    /\ pc = "new"
    /\ \E r \in {new(input)} :
           /\ position' = r.p.position
           /\ current_token' = r.p.current_token
           /\ result' = IF r.ok THEN result ELSE ResultErr(r.err)
           /\ pc' = IF r.ok THEN "parse" ELSE "report"
    /\ UNCHANGED <<input, ast, environment, stdout, env0, count>>

\* Parse that evaluates the expression as soon as it is parsed, before the
\* check for the end of the input
ParseEvaluatingFirst ==
    /\ pc = "parse"
    /\ \E r \in {parse(input, ParserState(position, current_token))},
          e \in {parse_expression(input, ParserState(position, current_token), 0)} :
           /\ position' = r.p.position
           /\ current_token' = r.p.current_token
           /\ ast' = r.node
           /\ result' = IF r.ok THEN result ELSE ResultErr(r.err)
           /\ pc' = IF r.ok THEN "evaluate"
                    ELSE IF r.err.kind = "Panic" THEN "panic"
                    ELSE "report"
           /\ environment' = IF e.ok /\ ~r.ok
                             THEN evaluate(e.node, environment, stdout).env
                             ELSE environment
           /\ stdout' = IF e.ok /\ ~r.ok
                        THEN evaluate(e.node, environment, stdout).out
                        ELSE stdout
    /\ UNCHANGED <<input, env0, count>>

\* evaluate_expression: parser.parse()?
Parse ==
    /\ pc = "parse"
    /\ \E r \in {parse(input, ParserState(position, current_token))} :
           /\ position' = r.p.position
           /\ current_token' = r.p.current_token
           /\ ast' = r.node
           /\ result' = IF r.ok THEN result ELSE ResultErr(r.err)
           /\ pc' = IF r.ok THEN "evaluate"
                    ELSE IF r.err.kind = "Panic" THEN "panic"
                    ELSE "report"
    /\ UNCHANGED <<input, environment, stdout, env0, count>>

\* evaluate_expression: ast.evaluate(env).ok_or_else(..)
Evaluate ==
    /\ pc = "evaluate"
    /\ \E r \in {evaluate(ast, environment, stdout)} :
           /\ environment' = r.env
           /\ stdout' = r.out
           /\ result' = IF r.some THEN ResultOk(r.value)
                        ELSE ResultErr(ErrText("EvaluationFailed", <<>>))
    /\ pc' = "report"
    /\ UNCHANGED <<input, position, current_token, ast, env0, count>>

\* main: the match on the result of evaluate_expression
Report ==
    /\ pc = "report"
    /\ stdout' = IF result.ok /\ ~contains(input, PrintName)
                 THEN Append(stdout, result.value)
                 ELSE stdout
    /\ pc' = "reported"
    /\ UNCHANGED <<input, position, current_token, ast, result, environment,
                   env0, count>>

\* main: the end of the loop body, where the line, its parser, its tree and
\* its result are dropped
Continue ==
    /\ pc = "reported"
    /\ pc' = "read"
    /\ input' = <<>>
    /\ position' = 0
    /\ current_token' = Token("EndOfFile")
    /\ ast' = NoNode
    /\ result' = NoResult
    /\ stdout' = <<>>
    /\ env0' = environment
    /\ UNCHANGED <<environment, count>>

Init ==
    /\ input = <<>>
    /\ position = 0
    /\ current_token = Token("EndOfFile")
    /\ pc = "read"
    /\ ast = NoNode
    /\ result = NoResult
    /\ environment = InitialEnvironment
    /\ stdout = <<>>
    /\ env0 = InitialEnvironment
    /\ count = 0

Next == ReadLine \/ EndOfInput \/ NewParser \/ Parse \/ Evaluate \/ Report \/ Continue

Spec == Init /\ [][Next]_vars

-----------------------------------------------------------------------------
(* The scanner alone: next_token called again and again on one Lexer *)

LexChars == {"(", "2", ".", "a", " ", "@"}
LexTexts == WordTexts({<<c>> : c \in LexChars}, MaxLen)

InitLex ==
    /\ input \in LexTexts
    /\ position = 0
    /\ current_token = Token("EndOfFile")
    /\ pc = "scan"
    /\ ast = NoNode
    /\ result = NoResult
    /\ environment = InitialEnvironment
    /\ stdout = <<>>
    /\ env0 = InitialEnvironment
    /\ count = 0

\* one call of Lexer::next_token; result holds what the call returned
NextToken ==
    /\ pc = "scan"
    /\ count < MaxCalls
    /\ \E r \in {next_token(input, position)} :
           /\ position' = r.position
           /\ current_token' = r.tok
           /\ result' = IF r.ok THEN ResultOk(r.tok.value) ELSE ResultErr(r.err)
    /\ count' = count + 1
    /\ UNCHANGED <<input, pc, ast, environment, stdout, env0>>

NextLex == NextToken

SpecLex == InitLex /\ [][NextLex]_vars

-----------------------------------------------------------------------------
(* evaluate_expression on one source text *)

ChainAtoms == {<<"2">>, <<"x">>, <<"(", "2", "+", "3", ")">>}
ChainOperators == {<<"+">>, <<"-">>, <<"*">>, <<"/">>, <<"^">>}

\* atom (operator atom)^n
RECURSIVE Chains(_)
Chains(n) ==
    IF n = 0 THEN ChainAtoms
    ELSE {a \o o \o c : a \in ChainAtoms, o \in ChainOperators, c \in Chains(n - 1)}

RECURSIVE ChainsUpTo(_)
ChainsUpTo(n) == IF n = 0 THEN Chains(0) ELSE ChainsUpTo(n - 1) \cup Chains(n)

ParseWords == {<<"2">>, <<"x">>, <<"f", "o", "o">>, <<"(">>, <<")">>, <<"+">>,
               <<"=">>, <<"@">>}

CallNames == UnknownNames \cup {SinName, PrintName}
CallArguments == {<<"2">>, <<"x">>, <<"2", "+", "x">>, <<"x", "=", "2">>,
                  <<"(", "2", ")">>, <<"f", "o", "o", "(", "2", ")">>}
CallBefore == {<<>>, <<"2", "+">>, <<"x", "=">>, <<"(">>, <<"s", "i", "n", "(">>}
CallAfter == {<<>>, <<"@">>, <<"2">>, <<")">>, <<"+", "2">>, <<" ", "2">>, <<"+">>,
              <<"2", ".", ".">>}

\* a function applied to an argument, with text before and after it
CallLines ==
    {b \o f \o Paren(a) \o t :
        b \in CallBefore, f \in CallNames, a \in CallArguments, t \in CallAfter}

ExampleLines ==
    { <<"2", "^", "3", "^", "2">>,
      <<"8", "/", "4", "/", "2">>,
      <<"2", "+", "3", "*", "4">>,
      <<"(", "2", "+", "3", ")", "*", "4">>,
      <<"2", " ", "+", " ", "3", " ", "4">>,
      <<"f", "o", "o", "(", "1", ")">>,
      <<"x", " ", "=", " ", "5">>,
      <<"x", " ", "=", " ", "5", " ", ")">>,
      <<"x", " ", "=", " ", "y", " ", "=", " ", "5">>,
      <<"y", " ", "+", " ", "1">>,
      <<"2", " ", "+", " ", "@">>,
      <<"p", "i", " ", "*", " ", "2">> }

\* the texts evaluate_expression is given
ChainLines == ChainsUpTo(MaxOps)
WordLines == WordTexts(ParseWords, MaxWords)

InitParse ==
    /\ \/ input \in ChainLines
       \/ input \in WordLines
       \/ input \in CallLines
       \/ input \in ExampleLines
    /\ position = 0
    /\ current_token = Token("EndOfFile")
    /\ pc = "new"
    /\ ast = NoNode
    /\ result = NoResult
    /\ environment = InitialEnvironment
    /\ stdout = <<>>
    /\ env0 = InitialEnvironment
    /\ count = 1

NextParse == NewParser \/ Parse \/ Evaluate \/ Report

SpecParse == InitParse /\ [][NextParse]_vars

-----------------------------------------------------------------------------
(* evaluate_expression on one line of main, in an environment main can hold *)

\* nodes of the expression main has evaluated before
MaxFirstNodes == 3

\* main's environment after evaluate_expression(line, ..) on the initial one
EnvironmentAfter(line) ==
    LET tree == Try(new(line), LAMBDA n : parse(line, n.p))
    IN  IF tree.ok THEN evaluate(tree.node, InitialEnvironment, <<>>).env
        ELSE InitialEnvironment

Environments == {EnvironmentAfter(line) : line \in SourcesUpTo(MaxFirstNodes)}

\* the lines main passes to evaluate_expression
EvalLines ==
    {inp \in {trim(line) : line \in ShellLines \cup BadLines \cup SourcesUpTo(MaxNodes)} :
        /\ ~eq_ignore_ascii_case(inp, QuitWord)
        /\ ~eq_ignore_ascii_case(inp, ExitWord)
        /\ inp # <<>>}

InitEval ==
    /\ input \in EvalLines
    /\ position = 0
    /\ current_token = Token("EndOfFile")
    /\ pc = "new"
    /\ ast = NoNode
    /\ result = NoResult
    /\ environment \in Environments
    /\ stdout = <<>>
    /\ env0 = environment
    /\ count = 1

NextEval == NewParser \/ Parse \/ Evaluate \/ Report

SpecEval == InitEval /\ [][NextEval]_vars

-----------------------------------------------------------------------------
(* The scanner at the end of its input *)

EofReturned == count > 0 /\ result.ok /\ is_eof(current_token)

\* C6: on one scanner, once a call of next_token has returned end-of-input
\* every later call returns end-of-input too, never a token or an error, and
\* no call moves the cursor backwards.
C6_EofIsFinal ==
    [][/\ position' >= position
       /\ EofReturned => (result'.ok /\ is_eof(current_token'))]_vars

\* two tokens at most, then end-of-input returned by every further call
C6_Witness ==
    /\ Len(input) = 2
    /\ count = MaxCalls
    /\ EofReturned
    /\ position = Len(input)

-----------------------------------------------------------------------------
(* The tree the precedence table gives, read off the token sequence *)

\* the tokens of a text, when the scanner accepts all of it
RECURSIVE Scan(_, _, _)
Scan(inp, pos, toks) ==
    LET r == next_token(inp, pos)
    IN  IF ~r.ok THEN [ok |-> FALSE, toks |-> toks]
        ELSE IF is_eof(r.tok) THEN [ok |-> TRUE, toks |-> toks]
        ELSE Scan(inp, r.position, Append(toks, r.tok))

Tokens(inp) == Scan(inp, 0, <<>>)

OperatorTypes == {"Plus", "Minus", "Multiply", "Divide", "Caret"}

\* the table: + and - bind loosest, then * and /, then ^
TablePrecedence(type) ==
    IF type \in {"Plus", "Minus"} THEN 1
    ELSE IF type \in {"Multiply", "Divide"} THEN 2
    ELSE 3

\* parentheses open before token i
Depth(toks, i) ==
    Cardinality({j \in 1..(i - 1) : toks[j].type = "LeftParenthesis"})
    - Cardinality({j \in 1..(i - 1) : toks[j].type = "RightParenthesis"})

\* the operators outside every pair of parentheses
TopOperators(toks) ==
    {i \in 1..Len(toks) : toks[i].type \in OperatorTypes /\ Depth(toks, i) = 0}

Loosest(toks) ==
    LET top == TopOperators(toks)
    IN  {i \in top :
            \A j \in top : TablePrecedence(toks[i].type) <= TablePrecedence(toks[j].type)}

Least(S) == CHOOSE i \in S : \A j \in S : i <= j
Greatest(S) == CHOOSE i \in S : \A j \in S : i >= j

\* where the expression splits: at the last of its loosest operators when they
\* group to the left, at the first of them when they group to the right (^)
SplitAt(toks) ==
    LET loosest == Loosest(toks)
    IN  IF toks[Least(loosest)].type = "Caret" THEN Least(loosest)
        ELSE Greatest(loosest)

TableNode(type, l, r) ==
    IF l = NoNode \/ r = NoNode THEN NoNode
    ELSE IF type = "Plus" THEN BinaryNode("AddNode", l, r)
    ELSE IF type = "Minus" THEN BinaryNode("SubtractNode", l, r)
    ELSE IF type = "Multiply" THEN BinaryNode("MultiplyNode", l, r)
    ELSE IF type = "Divide" THEN BinaryNode("DivideNode", l, r)
    ELSE PowerNode(l, r)

\* one pair of parentheses around all of toks
Enclosed(toks) ==
    /\ Len(toks) > 2
    /\ toks[1].type = "LeftParenthesis"
    /\ toks[Len(toks)].type = "RightParenthesis"
    /\ \A i \in 2..Len(toks) : Depth(toks, i) >= 1

\* the tree of a sequence of numbers, variables and parenthesised
\* sub-expressions separated by binary operators; NoNode for any other
\* sequence
RECURSIVE TableTree(_)
TableTree(toks) ==
    IF toks = <<>> THEN NoNode
    ELSE IF TopOperators(toks) # {}
    THEN LET i == SplitAt(toks)
         IN  TableNode(toks[i].type,
                       TableTree(SubSeq(toks, 1, i - 1)),
                       TableTree(SubSeq(toks, i + 1, Len(toks))))
    ELSE IF Len(toks) = 1
    THEN (IF toks[1].type = "Number" THEN NumberNode(toks[1].value)
          ELSE IF toks[1].type = "Symbol" THEN VariableNode(toks[1].name)
          ELSE NoNode)
    ELSE IF Enclosed(toks) THEN TableTree(SubSeq(toks, 2, Len(toks) - 1))
    ELSE NoNode

\* Parser::new has failed or Parser::parse has just returned
Parsed == pc \in {"evaluate", "panic"} \/ (pc = "report" /\ ast = NoNode)

Evaluated(text, value) ==
    (pc = "report" /\ input = text) => result = ResultOk(Fin(value, 1))

\* C1: for a sequence of atoms separated by binary operators, the parser
\* builds the tree of the precedence table (+,- = 1; *,/ = 2; ^ = 3): tighter
\* operators bind first, + - * / group to the left, ^ groups to the right and
\* a parenthesised sub-expression is one operand; so 2^3^2 is 512, 8/4/2 is 1,
\* 2+3*4 is 14 and (2+3)*4 is 20.
C1_PrecedenceTree ==
    /\ Parsed =>
          LET t == Tokens(input)
              tree == TableTree(t.toks)
          IN  (t.ok /\ tree # NoNode) => ast = tree
    /\ Evaluated(<<"2", "^", "3", "^", "2">>, 512)
    /\ Evaluated(<<"8", "/", "4", "/", "2">>, 1)
    /\ Evaluated(<<"2", "+", "3", "*", "4">>, 14)
    /\ Evaluated(<<"(", "2", "+", "3", ")", "*", "4">>, 20)

\* x - 2 * (2+3) ^ 2 parsed as x - (2 * ((2+3) ^ 2)) and evaluated
C1_Witness ==
    /\ pc = "report"
    /\ result.ok
    /\ input = <<"2", "-", "2", "*", "(", "2", "+", "3", ")", "^", "2">>
    /\ ast = TableTree(Tokens(input).toks)
    /\ ast.type = "SubtractNode"
    /\ ast.right.type = "MultiplyNode"
    /\ ast.right.right.type = "PowerNode"
    /\ ast.right.right.base.type = "AddNode"
    /\ result = ResultOk(Neg(Fin(48, 1)))

-----------------------------------------------------------------------------
(* The end of the input *)

\* the one full expression Parser::parse parses first
FirstExpression == Try(new(input), LAMBDA n : parse_expression(input, n.p, 0))

TrailingInput(tok) ==
    /\ pc = "report"
    /\ ast = NoNode
    /\ result = ResultErr(ErrToken("UnexpectedTokenAtEnd", tok))

\* a chain of atoms and operators that ends in a number or a parenthesis,
\* followed by a token that does not continue it
ChainThenToken(toks, i) ==
    /\ toks[i].type \in {"Number", "RightParenthesis"}
    /\ toks[i + 1].type \notin OperatorTypes
    /\ TableTree(SubSeq(toks, 1, i)) # NoNode

\* C5: parse returns a tree only if the current token is end-of-input once one
\* full expression has been parsed; when a further token follows the
\* expression (2 + 3 4) parse fails with the trailing-input error, naming that
\* token, and returns no tree.
C5_TrailingInput ==
    /\ (pc = "evaluate" \/ ast # NoNode) => is_eof(current_token)
    /\ Parsed =>
          LET first == FirstExpression
          IN  (first.ok /\ ~is_eof(first.p.current_token))
                 => TrailingInput(first.p.current_token)
    /\ Parsed =>
          LET t == Tokens(input)
          IN  t.ok => \A i \in 1..(Len(t.toks) - 1) :
                         ChainThenToken(t.toks, i) => TrailingInput(t.toks[i + 1])

C5_Witness ==
    /\ input = <<"2", " ", "+", " ", "3", " ", "4">>
    /\ TrailingInput(Number(Fin(4, 1)))

-----------------------------------------------------------------------------
(* Unknown functions *)

KnownNames == {SinName, CosName, SqrtName, PrintName}

WellFormed(text) == Try(new(text), LAMBDA n : parse(text, n.p)).ok

\* input[a..b-1] is a name that is none of sin, cos, sqrt, print, input[b] is
\* "(", input[c] the ")" that closes it, and a well-formed expression lies
\* between them
AppliesUnknown(a, b, c) ==
    /\ a < b /\ b < c
    /\ input[b] = "("
    /\ input[c] = ")"
    /\ \A i \in a..(b - 1) : is_ascii_alphabetic(input[i])
    /\ a = 1 \/ ~is_ascii_alphabetic(input[a - 1])
    /\ SubSeq(input, a, b - 1) \notin KnownNames
    /\ WellFormed(SubSeq(input, b + 1, c - 1))

Positions == 1..Len(input)
\* where a name may start, where "(" stands and where ")" stands
Starts ==
    {i \in Positions : is_ascii_alphabetic(input[i])
                          /\ (i = 1 \/ ~is_ascii_alphabetic(input[i - 1]))}
Opens == {i \in Positions : input[i] = "("}
Closes == {i \in Positions : input[i] = ")"}

UnknownFunction(name) ==
    /\ ast = NoNode
    /\ result = ResultErr(ErrText("UnknownFunction", name))

\* C8 as claimed, for the applications the input begins with: every input in
\* which an unknown symbol is applied to a parenthesised, well-formed argument
\* fails with UnknownFunction carrying the symbol's name.
C8_AlwaysUnknownFunction ==
    Parsed => \A b \in Opens, c \in Closes :
                AppliesUnknown(1, b, c) => UnknownFunction(SubSeq(input, 1, b - 1))

\* C8, amended: an input that contains an unknown symbol applied to a
\* parenthesised, well-formed argument yields no tree; when it begins with the
\* application, the error is UnknownFunction with the symbol's name if the
\* scanner accepts the token after the closing parenthesis (or the input ends
\* there), and else the scanner's error for that token.
C8_UnknownFunction ==
    Parsed =>
      /\ \A a \in Starts, b \in Opens, c \in Closes :
            AppliesUnknown(a, b, c) => (ast = NoNode /\ ~result.ok /\ pc # "evaluate")
      /\ \A b \in Opens, c \in Closes :
            AppliesUnknown(1, b, c) =>
               IF next_token(input, c).ok
               THEN UnknownFunction(SubSeq(input, 1, b - 1))
               ELSE ast = NoNode /\ result = ResultErr(next_token(input, c).err)

\* foo(1)
C8_Witness ==
    /\ pc = "report"
    /\ input = <<"f", "o", "o", "(", "1", ")">>
    /\ AppliesUnknown(1, 4, 6)
    /\ UnknownFunction(<<"f", "o", "o">>)

-----------------------------------------------------------------------------
(* Evaluation, read off the tree and the names bound before it *)

\* the walk of a tree, depth first, left operand before right: ok until a
\* variable is reached whose name is not bound at that moment; bound, the
\* names bound so far; committed, the targets of the assignments completed so
\* far; printed, the print calls completed so far.  After the first unbound
\* variable nothing changes any more.
StartWalk(names) == [ok |-> TRUE, bound |-> names, committed |-> {}, printed |-> 0]

RECURSIVE Walk(_, _)
Walk(node, w) ==
    IF ~w.ok \/ node.type = "NumberNode" THEN w
    ELSE IF node.type = "VariableNode"
    THEN [w EXCEPT !.ok = node.name \in w.bound]
    ELSE IF node.type \in BinaryTypes THEN Walk(node.right, Walk(node.left, w))
    ELSE IF node.type = "PowerNode" THEN Walk(node.exponent, Walk(node.base, w))
    ELSE IF node.type \in UnaryTypes THEN Walk(node.argument, w)
    ELSE IF node.type = "PrintNode"
    THEN LET a == Walk(node.argument, w)
         IN  IF a.ok THEN [a EXCEPT !.printed = @ + 1] ELSE a
    ELSE LET v == Walk(node.value, w)
         IN  IF v.ok
             THEN [v EXCEPT !.bound = @ \cup {node.variable_name},
                            !.committed = @ \cup {node.variable_name}]
             ELSE v

\* the print calls in a tree
RECURSIVE PrintCalls(_)
PrintCalls(node) ==
    IF node.type \in {"NumberNode", "VariableNode"} THEN 0
    ELSE IF node.type \in BinaryTypes THEN PrintCalls(node.left) + PrintCalls(node.right)
    ELSE IF node.type = "PowerNode" THEN PrintCalls(node.base) + PrintCalls(node.exponent)
    ELSE IF node.type \in UnaryTypes THEN PrintCalls(node.argument)
    ELSE IF node.type = "PrintNode" THEN 1 + PrintCalls(node.argument)
    ELSE PrintCalls(node.value)

\* ast.evaluate(env) has just returned
JustEvaluated == pc = "report" /\ ast # NoNode

EvaluationFailed == ~result.ok /\ result.err.kind = "EvaluationFailed"

\* the names whose binding differs from the one the line started with
Changed ==
    {n \in DOMAIN environment : n \notin DOMAIN env0 \/ environment[n] # env0[n]}

\* C2 as claimed: when the evaluation of an Assignment node fails, the
\* environment is identical to the one before it, whatever the value subtree.
C2_FailedAssignmentLeavesNoTrace ==
    (JustEvaluated /\ ast.type = "AssignmentNode" /\ EvaluationFailed)
        => environment = env0

\* C2, amended: when the evaluation of an Assignment node fails, the node
\* itself binds nothing: no binding is removed, and the bindings added or
\* changed are those of the Assignment nodes inside its value subtree that
\* completed before the first unbound Variable was reached; with no such
\* nested assignment the environment is identical to the one before.
C2_FailedAssignment ==
    (JustEvaluated /\ ast.type = "AssignmentNode" /\ EvaluationFailed)
        => LET w == Walk(ast.value, StartWalk(DOMAIN env0))
           IN  /\ ~w.ok
               /\ DOMAIN environment = DOMAIN env0 \cup w.committed
               /\ Changed \subseteq w.committed
               /\ w.committed = {} => environment = env0

\* x = (y = 2)-x with x unbound: y = 2 stays, x is not bound
C2_Witness ==
    /\ JustEvaluated
    /\ EvaluationFailed
    /\ ast.type = "AssignmentNode"
    /\ ast.value.type = "SubtractNode"
    /\ ast.value.left.type = "AssignmentNode"
    /\ ast.variable_name \notin DOMAIN environment
    /\ Changed = {ast.value.left.variable_name}

\* C3: over the lines evaluated on one environment, no binding is ever
\* removed, and a binding changes only while a tree is evaluated in which an
\* Assignment node naming it completes; a line that is just a bound variable
\* yields the value bound to it; so x keeps the value assigned to it, and pi
\* and e their seeded values, through every line that does not assign them.
C3_Persistence ==
    [][/\ \A n \in DOMAIN environment :
            /\ n \in DOMAIN environment'
            /\ environment'[n] # environment[n]
                  => /\ pc = "evaluate"
                     /\ n \in Walk(ast, StartWalk(DOMAIN environment)).committed
       /\ (pc = "evaluate" /\ ast.type = "VariableNode"
              /\ ast.name \in DOMAIN environment)
             => result' = ResultOk(environment[ast.name])]_vars

\* x read back on the second line, pi as seeded
C3_Witness ==
    /\ count = 2
    /\ JustEvaluated
    /\ ast = VariableNode(<<"x">>)
    /\ <<"x">> \notin DOMAIN InitialEnvironment
    /\ <<"x">> \in DOMAIN env0
    /\ result = ResultOk(env0[<<"x">>])
    /\ environment[PiName] = PI

\* C4: the evaluation of a parsed tree fails exactly when the walk of the
\* tree, depth first and left before right, reaches a Variable whose name is
\* not bound at that moment, names bound by assignments evaluated earlier in
\* the same tree counting as bound; nothing to the right of that Variable is
\* evaluated (no binding, no output comes from there), and no other node,
\* a division by zero or a square root of a negative number included, fails.
C4_OnlyUnboundVariablesFail ==
    JustEvaluated =>
        LET w == Walk(ast, StartWalk(DOMAIN env0))
        IN  /\ result.ok = w.ok
            /\ ~result.ok => EvaluationFailed
            /\ DOMAIN environment = w.bound
            /\ Len(stdout) = w.printed

\* (y = 2)-x with x unbound: the assignment on the left is committed, then
\* the variable on the right fails the line
C4_Witness ==
    /\ JustEvaluated
    /\ EvaluationFailed
    /\ ast.type = "SubtractNode"
    /\ ast.left.type = "AssignmentNode"
    /\ ast.right.type = "VariableNode"
    /\ ast.right.name \notin DOMAIN environment
    /\ Changed = {ast.left.variable_name}

\* C7: a Print node writes its line exactly once, after its argument has been
\* evaluated with a value, and returns that value; when the argument fails
\* the node writes nothing.
C7_PrintOnce ==
    JustEvaluated =>
        /\ result.ok => Len(stdout) = PrintCalls(ast)
        /\ Len(stdout) = Walk(ast, StartWalk(DOMAIN env0)).printed
        /\ ast.type = "PrintNode" =>
              LET a == evaluate(ast.argument, env0, <<>>)
              IN  IF a.some
                  THEN result = ResultOk(a.value) /\ stdout = Append(a.out, a.value)
                  ELSE ~result.ok /\ stdout = a.out

\* print((print(2))-0): the inner line, then the outer one
C7_Witness ==
    /\ JustEvaluated
    /\ result.ok
    /\ ast.type = "PrintNode"
    /\ ast.argument.type = "SubtractNode"
    /\ ast.argument.left.type = "PrintNode"
    /\ stdout = <<Fin(2, 1), result.value>>

\* C9: evaluate_expression returns a number or an error for every line and
\* never aborts: create_binary_node is called with + - * / ^ only, so its
\* panic is not reached, and after a failed line main goes on to the next
\* line with the same environment.
C9_NeverAborts ==
    /\ [](/\ pc # "panic"
          /\ pc \in {"report", "reported"} => (result.ok \/ result.err.kind # "None"))
    /\ [][(pc = "reported" /\ ~result.ok)
             => (pc' = "read" /\ environment' = environment)]_vars

\* 2 = 2: a token that is no operator after an operand is an error, no panic
C9_Witness ==
    /\ pc = "reported"
    /\ input = <<"2", " ", "=", " ", "2">>
    /\ result = ResultErr(ErrToken("UnexpectedTokenAtEnd", Token("Equals")))
    /\ count < MaxLines

LexOrParseError ==
    pc \in {"report", "reported"} /\ ~result.ok /\ ~EvaluationFailed

\* C10: evaluation starts only once the whole line is scanned and parsed:
\* for a line that fails with a scanner or parser error, wherever the error
\* lies, the environment is unchanged and nothing is written.
C10_ErrorsBeforeEvaluation ==
    (pc \in {"new", "parse", "evaluate"} \/ LexOrParseError)
        => (environment = env0 /\ stdout = <<>>)

\* x = 2 ): the assignment is complete, the line is not
C10_Witness ==
    /\ pc = "report"
    /\ input = <<"x", " ", "=", " ", "2", " ", ")">>
    /\ result = ResultErr(ErrToken("UnexpectedTokenAtEnd", Token("RightParenthesis")))
    /\ <<"x">> \notin DOMAIN environment

=============================================================================
